---- MODULE Spec2Model ----
(***************************************************************************)
(* Deal Brief backend: the extraction orchestrator                         *)
(* (llm_service.process_deal_extraction), the deal store (database.py),    *)
(* the status broadcaster (websocket.WebSocketManager) and the submission  *)
(* endpoint with its content-hash dedup gate (main.create_deal_endpoint).  *)
(*                                                                         *)
(* Every `await` of the Python code is a scheduling point of the asyncio   *)
(* event loop: an action of this module is the code between two awaits,    *)
(* together with the outcome of the awaited call.                          *)
(***************************************************************************)
EXTENDS Integers, Sequences, FiniteSets, TLC

\* ------------------------------------------------------------------ bounds
\* number of store operations that may raise during one behaviour
MaxFaults == 2
\* number of WebSocket objects observers open
NumWebSockets == 2
\* number of concurrent submission requests
NumReqs == 2

\* ------------------------------------------------------- program constants
MAX_RETRIES == 2
MAX_INPUT_SIZE == 10240

\* ---------------------------------------------------------------- universe
WebSockets == 1..NumWebSockets
Reqs == 1..NumReqs
Runs == {"r1", "r2"}
\* the ids uuid4 hands out: one for the deal the orchestrator works on and
\* one per request
DealIds == 1..(NumReqs + 1)
\* an id no record was ever created for
UnknownId == 0
AllIds == DealIds \cup {UnknownId}

\* SQL NULL / Python None, and a value that is set
NULL == <<>>
Some(v) == <<v>>

\* class DealStatus
PENDING == "pending"
EXTRACTING == "extracting"
VALIDATING == "validating"
COMPLETED == "completed"
FAILED == "failed"
DealStatus == {PENDING, EXTRACTING, VALIDATING, COMPLETED, FAILED}

\* --------------------------------------------------------------------------
\* Texts.  A str is kept run-length encoded: a sequence of <<char, count>>
\* with count >= 1, so that a 10 KB text is one short value.
\* --------------------------------------------------------------------------
IsSpace(c) == c \in {" ", "TAB", "NL"}

\* str.lower() on the alphabet of the model
lower(c) == IF c = "A" THEN "a" ELSE IF c = "B" THEN "b" ELSE c

\* width of a character in UTF-8 ("e'" stands for U+00E9)
Utf8Width(c) == IF c = "e'" THEN 2 ELSE 1

RECURSIVE Utf8Len(_)
Utf8Len(t) ==
    IF t = <<>> THEN 0
    ELSE Utf8Width(Head(t)[1]) * Head(t)[2] + Utf8Len(Tail(t))

\* append n copies of c to a run-length encoded string
AppendRun(acc, c, n) ==
    IF acc # <<>> /\ acc[Len(acc)][1] = c
    THEN [acc EXCEPT ![Len(acc)] = <<c, @[2] + n>>]
    ELSE Append(acc, <<c, n>>)

\* " ".join(text.lower().split()): sp says that whitespace was seen after
\* the last word character already written to acc
RECURSIVE NormFrom(_, _, _, _)
NormFrom(t, i, acc, sp) ==
    IF i > Len(t) THEN acc
    ELSE IF IsSpace(t[i][1]) THEN NormFrom(t, i + 1, acc, acc # <<>>)
    ELSE NormFrom(t, i + 1,
                  AppendRun(IF sp THEN AppendRun(acc, " ", 1) ELSE acc,
                            lower(t[i][1]), t[i][2]),
                  FALSE)

normalized(text) == NormFrom(text, 1, <<>>, FALSE)

\* hashlib.sha256(...).hexdigest(): a digest is determined by, and (no
\* collisions among the few texts of the model) determines, the bytes hashed
sha256(bytes) == [sha256 |-> bytes]

\* compute_content_hash that hashes the text as typed
compute_content_hash_Raw(text) == sha256(text)

compute_content_hash(text) == sha256(normalized(text))

\* --------------------------------------------------------------------------
\* LLM responses and the ExtractedDeal schema
\* --------------------------------------------------------------------------
\* A response is a str.  kind: "malformed" is not JSON, "nonobject" is JSON
\* that is not an object, "object" is a JSON object with the keys in `has`.
Response(kind, has, name, brief, founders, sector) ==
    [kind |-> kind, has |-> has, company_name |-> name,
     investment_brief |-> brief, founders |-> founders, sector |-> sector]

RMalformed == Response("malformed", {}, "", <<>>, <<>>, "")
RNonObject == Response("nonobject", {}, "", <<>>, <<>>, "")
RNoName == Response("object", {"investment_brief", "sector"}, "", <<"p1">>, <<>>, "Fintech")
REmptyBrief == Response("object", {"company_name", "investment_brief"}, "Acme", <<>>, <<>>, "")
RValid1 == Response("object", {"company_name", "investment_brief"}, "Acme", <<"p1">>, <<>>, "")
RValid2 == Response("object", {"company_name", "investment_brief", "founders", "sector"},
                    "Beta", <<"p1", "p2">>, <<"f1">>, "Fintech")

\* what the LLM may answer
Responses == {RMalformed, RNonObject, RNoName, REmptyBrief, RValid1, RValid2}

\* SchemaErrors of a schema that lets a brief of 16 points pass
SchemaErrors_Brief16(data) ==
    (IF "company_name" \notin data.has \/ data.company_name = ""
     THEN {"company_name"} ELSE {})
    \cup
    (IF "investment_brief" \notin data.has
        \/ Len(data.investment_brief) < 1 \/ Len(data.investment_brief) > 16
     THEN {"investment_brief"} ELSE {})

\* class ExtractedDeal: the fields that fail validation
SchemaErrors(data) ==
    (IF "company_name" \notin data.has \/ data.company_name = ""
     THEN {"company_name"} ELSE {})
    \cup
    (IF "investment_brief" \notin data.has
        \/ Len(data.investment_brief) < 1 \/ Len(data.investment_brief) > 15
     THEN {"investment_brief"} ELSE {})

\* ExtractedDeal(**data): absent optional fields take their defaults
ExtractedDeal(data) ==
    [company_name |-> data.company_name,
     founders |-> IF "founders" \in data.has THEN data.founders ELSE <<>>,
     sector |-> IF "sector" \in data.has THEN data.sector ELSE "",
     geography |-> "",
     stage |-> "",
     round_size |-> "",
     metrics |-> <<>>,
     investment_brief |-> data.investment_brief,
     tags |-> <<>>]

\* str(e) of the exceptions the model raises
ValidationErrorStr(fields) ==
    IF fields = {"company_name"} THEN "ValidationError: company_name"
    ELSE IF fields = {"investment_brief"} THEN "ValidationError: investment_brief"
    ELSE "ValidationError: company_name, investment_brief"
JSONDecodeErrorStr == "JSONDecodeError"
TypeErrorStr == "TypeError: argument after ** must be a mapping"
NotFoundStr == "Deal not found"
LLMErrorStr == "APIError"
StoreErrorStr == "OperationalError"
SetChangedStr == "Set changed size during iteration"
KeyErrorStr == "KeyError"

\* validate_and_parse: the ExtractedDeal, or the exception raised
validate_and_parse(json_str) ==
    IF json_str.kind = "malformed"
    THEN [ok |-> FALSE, caught |-> TRUE, error |-> JSONDecodeErrorStr]
    ELSE IF json_str.kind = "nonobject"
    THEN [ok |-> FALSE, caught |-> FALSE, error |-> TypeErrorStr]
    ELSE IF SchemaErrors(json_str) # {}
    THEN [ok |-> FALSE, caught |-> TRUE,
          error |-> ValidationErrorStr(SchemaErrors(json_str))]
    ELSE [ok |-> TRUE, caught |-> FALSE, error |-> ""]

\* json.dumps of a list or dict column
json_dumps(v) == [json |-> v]

\* --------------------------------------------------------------------------
\* State
\* --------------------------------------------------------------------------
VARIABLES
    deals,          \* table deals: id -> row
    unique_hash,    \* whether the schema declares content_hash UNIQUE
    connections,    \* WebSocketManager.connections: deal_id -> set of sockets
    run,            \* the process_deal_extraction coroutines
    req,            \* the create_deal_endpoint coroutines
    faults,         \* store operations that raised so far
    accepted,       \* the WebSocket objects whose accept() was awaited
    slots           \* the hash table of each set object in connections

vars == <<deals, unique_hash, connections, run, req, faults, accepted, slots>>

\* a row as INSERT INTO deals (id, content_hash, raw_text, status, ...)
\* leaves it: every other column is NULL
NewRow(content_hash, raw_text) ==
    [content_hash |-> content_hash, raw_text |-> raw_text,
     status |-> PENDING, last_error |-> NULL,
     company_name |-> NULL, founders |-> NULL, sector |-> NULL,
     geography |-> NULL, stage |-> NULL, round_size |-> NULL,
     metrics |-> NULL, investment_brief |-> NULL, tags |-> NULL,
     rowid |-> 0]

\* update_deal_status that refuses to move a terminal status
update_deal_status_Guarded(tbl, deal_id, status, last_error) ==
    IF deal_id \in DOMAIN tbl /\ tbl[deal_id].status \notin {COMPLETED, FAILED}
    THEN [tbl EXCEPT ![deal_id].status = status,
                     ![deal_id].last_error = last_error]
    ELSE tbl

\* update_deal_status that writes last_error and leaves the status column
update_deal_status_ErrorOnly(tbl, deal_id, status, last_error) ==
    IF deal_id \in DOMAIN tbl
    THEN [tbl EXCEPT ![deal_id].last_error = last_error]
    ELSE tbl

\* UPDATE deals SET status = ?, last_error = ? WHERE id = ?
update_deal_status(tbl, deal_id, status, last_error) ==
    IF deal_id \in DOMAIN tbl
    THEN [tbl EXCEPT ![deal_id].status = status,
                     ![deal_id].last_error = last_error]
    ELSE tbl

\* UPDATE deals SET status = 'completed', company_name = ?, ... WHERE id = ?
update_deal_extracted(tbl, deal_id, extracted) ==
    IF deal_id \in DOMAIN tbl
    THEN [tbl EXCEPT ![deal_id].status = COMPLETED,
                     ![deal_id].company_name = Some(extracted.company_name),
                     ![deal_id].founders = Some(json_dumps(extracted.founders)),
                     ![deal_id].sector = Some(extracted.sector),
                     ![deal_id].geography = Some(extracted.geography),
                     ![deal_id].stage = Some(extracted.stage),
                     ![deal_id].round_size = Some(extracted.round_size),
                     ![deal_id].metrics = Some(json_dumps(extracted.metrics)),
                     ![deal_id].investment_brief =
                         Some(json_dumps(extracted.investment_brief)),
                     ![deal_id].tags = Some(json_dumps(extracted.tags))]
    ELSE tbl

\* A store coroutine returns ("ok"), raises before its statement is
\* committed ("fail_before"), or raises after the commit, in the trailing
\* get_deal_by_id ("fail_after").
WriteOutcomes ==
    IF faults < MaxFaults THEN {"ok", "fail_before", "fail_after"} ELSE {"ok"}
ReadOutcomes ==
    IF faults < MaxFaults THEN {"ok", "fail_before"} ELSE {"ok"}
Committed(o) == o \in {"ok", "fail_after"}

\* --------------------------------------------------------------------------
\* process_deal_extraction
\* --------------------------------------------------------------------------
\* the fan-out of one broadcast_status call.  cur is the socket whose
\* send_text is awaited, todo the sockets the iterator has still to reach,
\* dead the local set dead_connections, orig the size the set had when the
\* iterator was made, detached says that disconnect has deleted the entry of
\* the set being iterated.  start, tried, again and changed record the call
\* for the properties: the set when the loop began, the sockets a send was
\* attempted to, those it was attempted to more than once, and whether a
\* connect or disconnect changed the set while the call was in progress.
NoBroadcast ==
    [cur |-> 0, todo |-> {}, dead |-> {}, orig |-> 0, detached |-> FALSE,
     ret |-> "idle", start |-> {}, tried |-> {}, again |-> {},
     changed |-> FALSE]

\* the call has returned or raised: what is left is its record
Ended(b, dead) ==
    [NoBroadcast EXCEPT !.dead = dead, !.start = b.start, !.tried = b.tried,
                        !.again = b.again, !.changed = b.changed]

IdleRun ==
    [pc |-> "idle", deal_id |-> UnknownId, ws_manager |-> FALSE,
     in_handler |-> FALSE, exc |-> NULL, escaped |-> NULL, deal |-> NULL,
     json_response |-> NULL, attempt |-> 0, last_error |-> NULL,
     extracted |-> NULL, bc |-> NoBroadcast,
     writes |-> <<>>, events |-> <<>>, responses |-> <<>>,
     n_extract |-> 0, n_repair |-> 0, n_validate |-> 0, n_store_err |-> 0]

\* an exception leaves the try body for `except Exception as e` (line 170),
\* and leaves the handler for the caller
Raise(rr, msg) ==
    IF rr.in_handler
    THEN [rr EXCEPT !.pc = "raised", !.escaped = Some(msg)]
    ELSE [rr EXCEPT !.pc = "L173", !.in_handler = TRUE, !.exc = Some(msg)]

Active(r) == run[r].pc \notin {"idle", "done", "raised"}

\* the caller starts at most one run for a deal id; the behaviours of this
\* specification follow one run (runs on different ids share no row and no
\* subscriber set)
SingleFlight(r, d) == \A r2 \in Runs : run[r2].pc = "idle"

\* coroutine objects are interchangeable: a run takes the free one CHOOSE
\* picks
FreeRun(r) == r = CHOOSE x \in Runs : run[x].pc = "idle"

StartRun(r, d, wm) ==
    /\ run[r].pc = "idle"
    /\ FreeRun(r)
    /\ SingleFlight(r, d)
    /\ run' = [run EXCEPT ![r] = [IdleRun EXCEPT !.pc = "L120", !.deal_id = d,
                                                 !.ws_manager = wm]]
    /\ UNCHANGED <<deals, unique_hash, connections, req, faults, accepted, slots>>

\* StatusArg with a handler that puts the deal back to pending for a retry
StatusArg_ResetsToPending(rr) ==
    CASE rr.pc = "L120" -> [status |-> EXTRACTING, last_error |-> NULL, next |-> "L122"]
      [] rr.pc = "L137" -> [status |-> VALIDATING, last_error |-> NULL, next |-> "L139"]
      [] rr.pc = "L166" -> [status |-> FAILED, last_error |-> rr.last_error, next |-> "L168"]
      [] rr.pc = "L173" -> [status |-> PENDING, last_error |-> rr.exc, next |-> "L175"]

\* StatusArg with a handler that stores last_error of the loop, not str(e)
StatusArg_StoresLoopError(rr) ==
    CASE rr.pc = "L120" -> [status |-> EXTRACTING, last_error |-> NULL, next |-> "L122"]
      [] rr.pc = "L137" -> [status |-> VALIDATING, last_error |-> NULL, next |-> "L139"]
      [] rr.pc = "L166" -> [status |-> FAILED, last_error |-> rr.last_error, next |-> "L168"]
      [] rr.pc = "L173" -> [status |-> FAILED, last_error |-> rr.last_error, next |-> "L175"]

\* the update_deal_status call awaited at each place
StatusArg(rr) ==
    CASE rr.pc = "L120" -> [status |-> EXTRACTING, last_error |-> NULL, next |-> "L122"]
      [] rr.pc = "L137" -> [status |-> VALIDATING, last_error |-> NULL, next |-> "L139"]
      [] rr.pc = "L166" -> [status |-> FAILED, last_error |-> rr.last_error, next |-> "L168"]
      [] rr.pc = "L173" -> [status |-> FAILED, last_error |-> rr.exc, next |-> "L175"]

StoreRaise(rr) == Raise([rr EXCEPT !.n_store_err = @ + 1], StoreErrorStr)

\* lines 120, 137, 166, 173: await update_deal_status(...)
UpdateStatus(r) ==
    /\ run[r].pc \in {"L120", "L137", "L166", "L173"}
    /\ \E o \in WriteOutcomes :
         LET rr == run[r]
             a == StatusArg(rr)
             logged == [rr EXCEPT !.writes = Append(@,
                          [op |-> "status", status |-> a.status,
                           last_error |-> a.last_error, fields |-> NULL,
                           committed |-> Committed(o)])]
         IN /\ deals' = IF Committed(o)
                        THEN update_deal_status(deals, rr.deal_id, a.status, a.last_error)
                        ELSE deals
            /\ faults' = IF o = "ok" THEN faults ELSE faults + 1
            /\ run' = [run EXCEPT ![r] =
                         IF o = "ok" THEN [logged EXCEPT !.pc = a.next]
                         ELSE StoreRaise(logged)]
    /\ UNCHANGED <<unique_hash, connections, req, accepted, slots>>

\* lines 125-128: deal = await get_deal_by_id(deal_id)
GetDeal(r) ==
    /\ run[r].pc = "L125"
    /\ \E o \in ReadOutcomes :
         LET rr == run[r] IN
         /\ faults' = IF o = "ok" THEN faults ELSE faults + 1
         /\ run' = [run EXCEPT ![r] =
                      IF o # "ok" THEN StoreRaise(rr)
                      ELSE IF rr.deal_id \in DOMAIN deals
                      THEN [rr EXCEPT !.pc = "L133",
                                      !.deal = Some(deals[rr.deal_id].raw_text)]
                      ELSE Raise(rr, NotFoundStr)]
    /\ UNCHANGED <<deals, unique_hash, connections, req, accepted, slots>>

\* line 133: json_response = await extract_deal_data(deal.raw_text)
ExtractCall(r) ==
    /\ run[r].pc = "L133"
    /\ \/ \E resp \in Responses :
            run' = [run EXCEPT ![r].pc = "L137", ![r].n_extract = @ + 1,
                               ![r].json_response = Some(resp),
                               ![r].responses = Append(@, resp)]
       \/ run' = [run EXCEPT ![r] =
                    Raise([run[r] EXCEPT !.n_extract = @ + 1], LLMErrorStr)]
    /\ UNCHANGED <<deals, unique_hash, connections, req, faults, accepted, slots>>

\* Validate with a loop that asks for a repair after every failed attempt
Validate_AlwaysRepairs(r) ==
    /\ run[r].pc = "L146"
    /\ LET rr == [run[r] EXCEPT !.n_validate = @ + 1]
           v == validate_and_parse(rr.json_response[1])
       IN run' = [run EXCEPT ![r] =
                    IF v.ok
                    THEN [rr EXCEPT !.pc = "L150",
                                    !.extracted = Some(ExtractedDeal(rr.json_response[1]))]
                    ELSE IF ~v.caught THEN Raise(rr, v.error)
                    ELSE [rr EXCEPT !.pc = "L162", !.last_error = Some(v.error)]]
    /\ UNCHANGED <<deals, unique_hash, connections, req, faults, accepted, slots>>

\* lines 143-146, 156-159: one validation attempt of the retry loop
Validate(r) ==
    /\ run[r].pc = "L146"
    /\ LET rr == [run[r] EXCEPT !.n_validate = @ + 1]
           v == validate_and_parse(rr.json_response[1])
       IN run' = [run EXCEPT ![r] =
                    IF v.ok
                    THEN [rr EXCEPT !.pc = "L150",
                                    !.extracted = Some(ExtractedDeal(rr.json_response[1]))]
                    ELSE IF ~v.caught THEN Raise(rr, v.error)
                    ELSE IF rr.attempt < MAX_RETRIES - 1
                    THEN [rr EXCEPT !.pc = "L162", !.last_error = Some(v.error)]
                    ELSE [rr EXCEPT !.pc = "L166", !.last_error = Some(v.error),
                                    !.attempt = @ + 1]]
    /\ UNCHANGED <<deals, unique_hash, connections, req, faults, accepted, slots>>

\* line 162: json_response = await repair_json(json_response, last_error),
\* then the next iteration of the loop
RepairCall(r) ==
    /\ run[r].pc = "L162"
    /\ \/ \E resp \in Responses :
            run' = [run EXCEPT ![r].pc = IF run[r].attempt + 1 < MAX_RETRIES
                                         THEN "L146" ELSE "L166",
                               ![r].attempt = @ + 1,
                               ![r].n_repair = @ + 1,
                               ![r].json_response = Some(resp),
                               ![r].responses = Append(@, resp)]
       \/ run' = [run EXCEPT ![r] =
                    Raise([run[r] EXCEPT !.n_repair = @ + 1], LLMErrorStr)]
    /\ UNCHANGED <<deals, unique_hash, connections, req, faults, accepted, slots>>

\* line 150: await update_deal_extracted(deal_id, extracted)
UpdateExtracted(r) ==
    /\ run[r].pc = "L150"
    /\ \E o \in WriteOutcomes :
         LET rr == run[r]
             logged == [rr EXCEPT !.writes = Append(@,
                          [op |-> "extracted", status |-> COMPLETED,
                           last_error |-> NULL, fields |-> rr.extracted,
                           committed |-> Committed(o)])]
         IN /\ deals' = IF Committed(o)
                        THEN update_deal_extracted(deals, rr.deal_id, rr.extracted[1])
                        ELSE deals
            /\ faults' = IF o = "ok" THEN faults ELSE faults + 1
            /\ run' = [run EXCEPT ![r] =
                         IF o = "ok" THEN [logged EXCEPT !.pc = "L152"]
                         ELSE StoreRaise(logged)]
    /\ UNCHANGED <<unique_hash, connections, req, accepted, slots>>

\* --------------------------------------------------------------------------
\* WebSocketManager
\* --------------------------------------------------------------------------
\* the broadcast_status call made at each place, and where the run goes on
BroadcastArg(rr) ==
    CASE rr.pc = "L122" -> [status |-> EXTRACTING, error |-> NULL, ret |-> "L125"]
      [] rr.pc = "L139" -> [status |-> VALIDATING, error |-> NULL, ret |-> "L146"]
      [] rr.pc = "L152" -> [status |-> COMPLETED, error |-> NULL, ret |-> "done"]
      [] rr.pc = "L168" -> [status |-> FAILED, error |-> rr.last_error, ret |-> "done"]
      [] rr.pc = "L175" -> [status |-> FAILED, error |-> rr.exc, ret |-> "done"]

\* lines 121-122 (and 138, 151, 167, 174): if ws_manager: await
\* ws_manager.broadcast_status(...), up to the first send_text (websocket.py
\* lines 33-46).  The for loop iterates the live set connections[deal_id].
BroadcastBegin(r) ==
    /\ run[r].pc \in {"L122", "L139", "L152", "L168", "L175"}
    /\ LET rr == run[r]
           a == BroadcastArg(rr)
           d == rr.deal_id
           called == [rr EXCEPT !.events = Append(@, [status |-> a.status,
                                                      error |-> a.error]),
                                !.bc = NoBroadcast]
       IN IF ~rr.ws_manager
          THEN run' = [run EXCEPT ![r].pc = a.ret]
          ELSE IF d \notin DOMAIN connections \/ connections[d] = {}
          THEN run' = [run EXCEPT ![r] = [called EXCEPT !.pc = a.ret]]
          ELSE \E w \in connections[d] :
                 run' = [run EXCEPT ![r] =
                           [called EXCEPT !.pc = "send",
                              !.bc = [NoBroadcast EXCEPT
                                        !.cur = w,
                                        !.todo = connections[d] \ {w},
                                        !.orig = Cardinality(connections[d]),
                                        !.ret = a.ret,
                                        !.start = connections[d],
                                        !.tried = {w}]]]
    /\ UNCHANGED <<deals, unique_hash, connections, req, faults, accepted, slots>>

\* BroadcastSend that leaves the sockets whose send failed in the set
BroadcastSend_KeepsDead(r) ==
    /\ run[r].pc = "send"
    /\ \E sent \in BOOLEAN :
         LET rr == run[r]
             b == rr.bc
             d == rr.deal_id
             dead == IF sent THEN b.dead ELSE b.dead \cup {b.cur}
         IN IF b.detached \/ Cardinality(connections[d]) # b.orig
            THEN /\ run' = [run EXCEPT ![r] =
                              Raise([rr EXCEPT !.bc = Ended(b, dead)], SetChangedStr)]
                 /\ UNCHANGED connections
            ELSE IF b.todo # {}
            THEN /\ \E w \in b.todo :
                      run' = [run EXCEPT ![r].bc.cur = w,
                                         ![r].bc.todo = b.todo \ {w},
                                         ![r].bc.dead = dead,
                                         ![r].bc.tried = b.tried \cup {w},
                                         ![r].bc.again = b.again \cup ({w} \cap b.tried)]
                 /\ UNCHANGED connections
            ELSE /\ UNCHANGED connections
                 /\ run' = [run EXCEPT ![r].pc = b.ret, ![r].bc = Ended(b, dead)]
    /\ UNCHANGED <<deals, unique_hash, req, faults, accepted, slots>>

\* lines 44-52: the awaited send_text returns or raises, then the iterator
\* is advanced.  A set iterator raises RuntimeError when the size of its
\* set is no longer the size it started with; the set it iterates is the
\* object that was in connections[deal_id] when the loop began (detached:
\* disconnect has deleted that entry, the object is now empty).
BroadcastSend(r) ==
    /\ run[r].pc = "send"
    /\ \E sent \in BOOLEAN :
         LET rr == run[r]
             b == rr.bc
             d == rr.deal_id
             dead == IF sent THEN b.dead ELSE b.dead \cup {b.cur}
         IN IF b.detached \/ Cardinality(connections[d]) # b.orig
            THEN /\ run' = [run EXCEPT ![r] =
                              Raise([rr EXCEPT !.bc = Ended(b, dead)], SetChangedStr)]
                 /\ UNCHANGED connections
            ELSE IF b.todo # {}
            THEN /\ \E w \in b.todo :
                      run' = [run EXCEPT ![r].bc.cur = w,
                                         ![r].bc.todo = b.todo \ {w},
                                         ![r].bc.dead = dead,
                                         ![r].bc.tried = b.tried \cup {w},
                                         ![r].bc.again = b.again \cup ({w} \cap b.tried)]
                 /\ UNCHANGED connections
            ELSE IF d \notin DOMAIN connections
            THEN /\ run' = [run EXCEPT ![r] =
                              Raise([rr EXCEPT !.bc = Ended(b, dead)], KeyErrorStr)]
                 /\ UNCHANGED connections
            ELSE /\ connections' = [connections EXCEPT ![d] = @ \ dead]
                 /\ run' = [run EXCEPT ![r].pc = b.ret, ![r].bc = Ended(b, dead)]
    /\ UNCHANGED <<deals, unique_hash, req, faults, accepted, slots>>

\* the fan-outs that are iterating the set of deal d
Iterating(d) == {r \in Runs : run[r].pc = "send" /\ run[r].deal_id = d}

\* A CPython set is a hash table: fill counts the slots that hold a member
\* or the mark a discard leaves behind, mask is the number of slots minus
\* one.  set() starts with PySet_MINSIZE slots.
PySet_MINSIZE == 8
NewTable == [fill |-> 0, mask |-> PySet_MINSIZE - 1]

\* set_table_resize: the smallest power of two above minused
RECURSIVE GrowTo(_, _)
GrowTo(size, minused) ==
    IF size > minused THEN size ELSE GrowTo(2 * size, minused)

\* lines 15-20: connect.  accept() raises on a WebSocket that was accepted
\* before, so an object is subscribed once in its life.  add() puts the
\* socket in a slot a discard has freed (reuse) or in an unused one; in the
\* second case the table is rebuilt when fill * 5 >= mask * 3.  For a loop
\* that is iterating the set the new socket lands before or behind the
\* iterator, and after a rebuild every member does: at[r] are the members
\* the iterator of fan-out r will still reach.
connect(d, w) ==
    /\ w \notin accepted
    /\ accepted' = accepted \cup {w}
    /\ LET old == IF d \in DOMAIN connections THEN connections[d] ELSE {}
           t == IF d \in DOMAIN connections THEN slots[d] ELSE NewTable
           members == old \cup {w}
       IN \E reuse \in {x \in BOOLEAN : x => t.fill > Cardinality(old)} :
            LET fill == IF reuse THEN t.fill ELSE t.fill + 1
                rebuilt == ~reuse /\ fill * 5 >= t.mask * 3
            IN /\ connections' =
                    [x \in DOMAIN connections \cup {d} |->
                       IF x = d THEN members ELSE connections[x]]
               /\ slots' =
                    [x \in DOMAIN connections \cup {d} |->
                       IF x # d THEN slots[x]
                       ELSE IF rebuilt
                       THEN [fill |-> Cardinality(members),
                             mask |-> GrowTo(PySet_MINSIZE, 4 * Cardinality(members)) - 1]
                       ELSE [fill |-> fill, mask |-> t.mask]]
               /\ \E at \in [Iterating(d) -> SUBSET members] :
                    run' = [r \in Runs |->
                              IF r \notin Iterating(d) THEN run[r]
                              ELSE IF run[r].bc.detached
                              THEN [run[r] EXCEPT !.bc.changed = TRUE]
                              ELSE [run[r] EXCEPT
                                      !.bc.changed = TRUE,
                                      !.bc.todo = IF rebuilt THEN at[r]
                                                  ELSE @ \cup (at[r] \cap {w})]]
    /\ UNCHANGED <<deals, unique_hash, req, faults>>

\* lines 22-27: disconnect
disconnect(d, w) ==
    /\ IF d \notin DOMAIN connections
       THEN UNCHANGED <<connections, run, slots>>
       ELSE LET rest == connections[d] \ {w} IN
            /\ connections' =
                 IF rest = {}
                 THEN [x \in DOMAIN connections \ {d} |-> connections[x]]
                 ELSE [connections EXCEPT ![d] = rest]
            /\ slots' =
                 IF rest = {}
                 THEN [x \in DOMAIN connections \ {d} |-> slots[x]]
                 ELSE slots
            /\ run' = [r \in Runs |->
                         IF r \notin Iterating(d) \/ w \notin connections[d]
                         THEN run[r]
                         ELSE IF run[r].bc.detached
                         THEN [run[r] EXCEPT !.bc.changed = TRUE]
                         ELSE [run[r] EXCEPT !.bc.changed = TRUE,
                                             !.bc.todo = @ \ {w},
                                             !.bc.detached = (rest = {})]]
    /\ UNCHANGED <<deals, unique_hash, req, faults, accepted>>

\* --------------------------------------------------------------------------
\* create_deal_endpoint (POST /api/deals)
\* --------------------------------------------------------------------------
IdleReq == [pc |-> "idle", raw_text |-> <<>>, content_hash |-> NULL,
            deal_id |-> NULL, response |-> NULL]

HTTP(code, id) == Some([status_code |-> code, id |-> id])

\* Submit with a limit that already rejects a text of MAX_INPUT_SIZE bytes
Submit_RejectsAtLimit(q, text) ==
    /\ req[q].pc = "idle"
    /\ req' = [req EXCEPT ![q] =
                 IF Utf8Len(text) >= MAX_INPUT_SIZE
                 THEN [@ EXCEPT !.pc = "done", !.raw_text = text,
                                !.response = HTTP(413, NULL)]
                 ELSE [@ EXCEPT !.pc = "L71", !.raw_text = text,
                                !.content_hash = Some(compute_content_hash(text))]]
    /\ UNCHANGED <<deals, unique_hash, connections, run, faults, accepted, slots>>

\* lines 60-68: the size check, then the hash; the request is suspended in
\* get_deal_by_hash
Submit(q, text) ==
    /\ req[q].pc = "idle"
    /\ req' = [req EXCEPT ![q] =
                 IF Utf8Len(text) > MAX_INPUT_SIZE
                 THEN [@ EXCEPT !.pc = "done", !.raw_text = text,
                                !.response = HTTP(413, NULL)]
                 ELSE [@ EXCEPT !.pc = "L71", !.raw_text = text,
                                !.content_hash = Some(compute_content_hash(text))]]
    /\ UNCHANGED <<deals, unique_hash, connections, run, faults, accepted, slots>>

\* SELECT * FROM deals WHERE content_hash = ? ... fetchone(): the matching
\* row inserted first
get_deal_by_hash(tbl, content_hash) ==
    LET found == {d \in DOMAIN tbl : tbl[d].content_hash = content_hash}
    IN IF found = {} THEN NULL
       ELSE Some(CHOOSE d \in found : \A e \in found : tbl[d].rowid <= tbl[e].rowid)

\* uuid.uuid4(): an id nobody holds
Fresh(d) ==
    /\ d \in DealIds \ DOMAIN deals
    /\ \A q \in Reqs : req[q].deal_id # Some(d)

\* lines 71-79: existing = await get_deal_by_hash(content_hash); 409 when a
\* row exists; else a new id, and the request is suspended in create_deal
CheckDuplicate(q) ==
    /\ req[q].pc = "L71"
    /\ \E o \in ReadOutcomes :
         LET existing == get_deal_by_hash(deals, req[q].content_hash[1]) IN
         /\ faults' = IF o = "ok" THEN faults ELSE faults + 1
         /\ IF o # "ok"
            THEN req' = [req EXCEPT ![q].pc = "done", ![q].response = HTTP(500, NULL)]
            ELSE IF existing # NULL
            THEN req' = [req EXCEPT ![q].pc = "done",
                                    ![q].response = HTTP(409, existing)]
            ELSE \E d \in DealIds :
                   /\ Fresh(d)
                   /\ req' = [req EXCEPT ![q].pc = "L80", ![q].deal_id = Some(d)]
    /\ UNCHANGED <<deals, unique_hash, connections, run, accepted, slots>>

\* INSERT INTO deals ...: sqlite raises IntegrityError when the schema
\* declares content_hash UNIQUE and a row has the hash
create_deal(tbl, deal_id, content_hash, raw_text) ==
    [d \in DOMAIN tbl \cup {deal_id} |->
       IF d = deal_id
       THEN [NewRow(content_hash, raw_text) EXCEPT !.rowid = Cardinality(DOMAIN tbl) + 1]
       ELSE tbl[d]]

\* lines 80-85: new_deal = await create_deal(...); return new_deal (201)
CreateDeal(q) ==
    /\ req[q].pc = "L80"
    /\ \E o \in WriteOutcomes :
         LET h == req[q].content_hash[1]
             d == req[q].deal_id[1]
             integrity == unique_hash /\ get_deal_by_hash(deals, h) # NULL
         IN IF integrity
            THEN /\ req' = [req EXCEPT ![q].pc = "done", ![q].response = HTTP(500, NULL)]
                 /\ UNCHANGED <<deals, faults>>
            ELSE /\ deals' = IF Committed(o)
                             THEN create_deal(deals, d, h, req[q].raw_text)
                             ELSE deals
                 /\ faults' = IF o = "ok" THEN faults ELSE faults + 1
                 /\ req' = [req EXCEPT ![q].pc = "done",
                                       ![q].response = IF o = "ok" THEN HTTP(201, Some(d))
                                                       ELSE HTTP(500, NULL)]
    /\ UNCHANGED <<unique_hash, connections, run, accepted, slots>>

\* --------------------------------------------------------------------------
\* The orchestrator with its store and its broadcaster: one deal has been
\* submitted and is pending, nobody is subscribed yet.
\* --------------------------------------------------------------------------
Text1 == <<<<"A", 1>>, <<" ", 2>>, <<"b", 1>>>>

Init ==
    /\ deals = create_deal([d \in {} |-> {}], 1, compute_content_hash(Text1), Text1)
    /\ unique_hash = FALSE
    /\ connections = [d \in {} |-> {}]
    /\ run = [r \in Runs |-> IdleRun]
    /\ req = [q \in Reqs |-> IdleReq]
    /\ faults = 0
    /\ accepted = {}
    /\ slots = [d \in {} |-> NewTable]

\* the ids runs are started for
RunIds == {1, UnknownId}

\* observers open their connection for the deal id a run works on (a set of
\* another id is never read or written by that run)
Observed(d) == \E r \in Runs : run[r].pc # "idle" /\ run[r].deal_id = d

ObserverConnects(d, w) == Observed(d) /\ connect(d, w)

ObserverDisconnects(d, w) == Observed(d) /\ disconnect(d, w)

Next ==
    \/ \E r \in Runs, d \in RunIds, wm \in BOOLEAN : StartRun(r, d, wm)
    \/ \E r \in Runs : UpdateStatus(r)
    \/ \E r \in Runs : BroadcastBegin(r)
    \/ \E r \in Runs : BroadcastSend(r)
    \/ \E r \in Runs : GetDeal(r)
    \/ \E r \in Runs : ExtractCall(r)
    \/ \E r \in Runs : Validate(r)
    \/ \E r \in Runs : RepairCall(r)
    \/ \E r \in Runs : UpdateExtracted(r)
    \/ \E d \in RunIds, w \in WebSockets : ObserverConnects(d, w)
    \/ \E d \in RunIds, w \in WebSockets : ObserverDisconnects(d, w)

Spec == Init /\ [][Next]_vars

\* --------------------------------------------------------------------------
\* The broadcaster with observers of two deal ids: the deal of the run and
\* another one, which a bystander has subscribed to.  Sockets subscribe to
\* and leave either id at any time, before, during and after the run.  The
\* store is healthy: its fault budget is spent.
\* --------------------------------------------------------------------------
OtherDeal == 2
Bystander == NumWebSockets + 1
WatchedIds == {1, OtherDeal}

InitWs ==
    /\ deals = create_deal([d \in {} |-> {}], 1, compute_content_hash(Text1), Text1)
    /\ unique_hash = FALSE
    /\ connections = [d \in {OtherDeal} |-> {Bystander}]
    /\ run = [r \in Runs |-> IdleRun]
    /\ req = [q \in Reqs |-> IdleReq]
    /\ faults = MaxFaults
    /\ accepted = {Bystander}
    /\ slots = [d \in {OtherDeal} |-> [NewTable EXCEPT !.fill = 1]]

NextWs ==
    \/ \E r \in Runs : StartRun(r, 1, TRUE)
    \/ \E r \in Runs : UpdateStatus(r)
    \/ \E r \in Runs : BroadcastBegin(r)
    \/ \E r \in Runs : BroadcastSend(r)
    \/ \E r \in Runs : GetDeal(r)
    \/ \E r \in Runs : ExtractCall(r)
    \/ \E r \in Runs : Validate(r)
    \/ \E r \in Runs : RepairCall(r)
    \/ \E r \in Runs : UpdateExtracted(r)
    \/ \E d \in WatchedIds, w \in WebSockets : connect(d, w)
    \/ \E d \in WatchedIds, w \in WebSockets \cup {Bystander} : disconnect(d, w)

SpecWs == InitWs /\ [][NextWs]_vars

\* --------------------------------------------------------------------------
\* The broadcaster with a deal that has had four subscribers, which half
\* fills the table of their set: two of them are still subscribed, two have
\* left, and one more socket may subscribe.  The store is healthy: its fault
\* budget is spent.
\* --------------------------------------------------------------------------
Early == 1..(PySet_MINSIZE \div 2)
Stayed == {1, 2}
Crowd == 1..(PySet_MINSIZE \div 2 + 1)

InitCrowd ==
    /\ deals = create_deal([d \in {} |-> {}], 1, compute_content_hash(Text1), Text1)
    /\ unique_hash = FALSE
    /\ connections = [d \in {1} |-> Stayed]
    /\ run = [r \in Runs |-> IdleRun]
    /\ req = [q \in Reqs |-> IdleReq]
    /\ faults = MaxFaults
    /\ accepted = Early
    /\ slots = [d \in {1} |-> [NewTable EXCEPT !.fill = Cardinality(Early)]]

NextCrowd ==
    \/ \E r \in Runs : StartRun(r, 1, TRUE)
    \/ \E r \in Runs : UpdateStatus(r)
    \/ \E r \in Runs : BroadcastBegin(r)
    \/ \E r \in Runs : BroadcastSend(r)
    \/ \E r \in Runs : GetDeal(r)
    \/ \E r \in Runs : ExtractCall(r)
    \/ \E r \in Runs : Validate(r)
    \/ \E r \in Runs : RepairCall(r)
    \/ \E r \in Runs : UpdateExtracted(r)
    \/ \E w \in Crowd : connect(1, w)
    \/ \E w \in Crowd : disconnect(1, w)

SpecCrowd == InitCrowd /\ [][NextCrowd]_vars

\* --------------------------------------------------------------------------
\* The submission endpoint with its store: an empty table, and the requests
\* that arrive.  The schema (migrations/001_initial.sql) decides whether
\* content_hash is UNIQUE.
\* --------------------------------------------------------------------------
Text2 == <<<<"a", 1>>, <<"TAB", 1>>, <<"B", 1>>, <<"NL", 1>>>>
Text3 == <<<<"b", 1>>, <<"e'", 1>>>>
TextMax == <<<<"a", MAX_INPUT_SIZE>>>>
TextOver == <<<<"a", MAX_INPUT_SIZE - 1>>, <<"e'", 1>>>>
SubmitTexts == {Text1, Text2, Text3, TextMax, TextOver}

InitSubmit ==
    /\ deals = [d \in {} |-> {}]
    /\ unique_hash \in BOOLEAN
    /\ connections = [d \in {} |-> {}]
    /\ run = [r \in Runs |-> IdleRun]
    /\ req = [q \in Reqs |-> IdleReq]
    /\ faults = 0
    /\ accepted = {}
    /\ slots = [d \in {} |-> NewTable]

NextSubmit ==
    \/ \E q \in Reqs, text \in SubmitTexts : Submit(q, text)
    \/ \E q \in Reqs : CheckDuplicate(q)
    \/ \E q \in Reqs : CreateDeal(q)

SpecSubmit == InitSubmit /\ [][NextSubmit]_vars

\* --------------------------------------------------------------------------
\* The dedup gate over all short texts: after a first request a second one
\* submits any text of up to MaxLen characters over an alphabet with two
\* cases of a letter and two kinds of whitespace.  The store is healthy: its
\* fault budget is spent.
\* --------------------------------------------------------------------------
MaxLen == 4
Chars == {"A", "a", " ", "TAB"}

RECURSIVE TextsOfLen(_)
TextsOfLen(n) ==
    IF n = 0 THEN {<<>>}
    ELSE {Append(t, <<c, 1>>) : t \in TextsOfLen(n - 1), c \in Chars}

\* DealCreate.raw_text has min_length 1
Texts == UNION {TextsOfLen(n) : n \in 1..MaxLen}

Pair == {1, 2}

InitHash ==
    /\ deals = [d \in {} |-> {}]
    /\ unique_hash = FALSE
    /\ connections = [d \in {} |-> {}]
    /\ run = [r \in Runs |-> IdleRun]
    /\ req = [q \in Reqs |-> IdleReq]
    /\ faults = MaxFaults
    /\ accepted = {}
    /\ slots = [d \in {} |-> NewTable]

\* the requests arrive one after the other (SpecSubmit has them overlap)
SubmitInTurn(q, text) ==
    /\ \A p \in Pair : p < q => req[p].pc = "done"
    /\ Submit(q, text)

\* what the first request submits; the second submits any text
Seeds == {<<<<"a", 1>>>>, <<<<"A", 1>>, <<" ", 1>>, <<"a", 1>>>>}

NextHash ==
    \/ \E text \in Seeds : SubmitInTurn(1, text)
    \/ \E text \in Texts : SubmitInTurn(2, text)
    \/ \E q \in Pair : CheckDuplicate(q)
    \/ \E q \in Pair : CreateDeal(q)

SpecHash == InitHash /\ [][NextHash]_vars

\* --------------------------------------------------------------------------
\* Validation over all shapes of a response: a run on deal 1 without a
\* broadcaster has received its first LLM response, any of ParseInputs, and
\* is about to validate it.  The store is healthy: its fault budget is
\* spent.
\* --------------------------------------------------------------------------
MaxBrief == 16

\* a list of n brief points
Brief(n) == [i \in 1..n |-> "p"]

ParseInputs ==
    {RMalformed, RNonObject} \cup
    {Response("object", has, name, Brief(n), founders, "Fintech") :
       has \in SUBSET {"company_name", "investment_brief", "founders", "sector"},
       name \in {"", "Acme"},
       n \in 0..MaxBrief,
       founders \in {<<>>, <<"f1">>}}

StatusWrite(status) ==
    [op |-> "status", status |-> status, last_error |-> NULL, fields |-> NULL,
     committed |-> TRUE]

InitParse ==
    /\ deals = update_deal_status(
                 create_deal([d \in {} |-> {}], 1, compute_content_hash(Text1), Text1),
                 1, VALIDATING, NULL)
    /\ unique_hash = FALSE
    /\ connections = [d \in {} |-> {}]
    /\ \E x \in ParseInputs :
         run = [r \in Runs |->
                  IF r = "r1"
                  THEN [IdleRun EXCEPT !.pc = "L146", !.deal_id = 1,
                                       !.deal = Some(Text1),
                                       !.json_response = Some(x),
                                       !.responses = <<x>>,
                                       !.n_extract = 1,
                                       !.writes = <<StatusWrite(EXTRACTING),
                                                    StatusWrite(VALIDATING)>>]
                  ELSE IdleRun]
    /\ req = [q \in Reqs |-> IdleReq]
    /\ faults = MaxFaults
    /\ accepted = {}
    /\ slots = [d \in {} |-> NewTable]

NextParse ==
    \/ \E r \in Runs : Validate(r)
    \/ \E r \in Runs : RepairCall(r)
    \/ \E r \in Runs : UpdateExtracted(r)
    \/ \E r \in Runs : UpdateStatus(r)
    \/ \E r \in Runs : BroadcastBegin(r)

SpecParse == InitParse /\ [][NextParse]_vars

\* --------------------------------------------------------------------------
\* Two runs on one deal: a caller that does not keep to one run per deal id
\* starts process_deal_extraction for deal 1 twice (no broadcaster).  The
\* store is healthy: its fault budget is spent.
\* --------------------------------------------------------------------------
\* process_deal_extraction itself checks nothing before it starts
StartRunUnchecked(r, d, wm) ==
    /\ run[r].pc = "idle"
    /\ FreeRun(r)
    /\ run' = [run EXCEPT ![r] = [IdleRun EXCEPT !.pc = "L120", !.deal_id = d,
                                                 !.ws_manager = wm]]
    /\ UNCHANGED <<deals, unique_hash, connections, req, faults, accepted, slots>>

InitRace ==
    /\ deals = create_deal([d \in {} |-> {}], 1, compute_content_hash(Text1), Text1)
    /\ unique_hash = FALSE
    /\ connections = [d \in {} |-> {}]
    /\ run = [r \in Runs |-> IdleRun]
    /\ req = [q \in Reqs |-> IdleReq]
    /\ faults = MaxFaults
    /\ accepted = {}
    /\ slots = [d \in {} |-> NewTable]

NextRace ==
    \/ \E r \in Runs : StartRunUnchecked(r, 1, FALSE)
    \/ \E r \in Runs : UpdateStatus(r)
    \/ \E r \in Runs : BroadcastBegin(r)
    \/ \E r \in Runs : GetDeal(r)
    \/ \E r \in Runs : ExtractCall(r)
    \/ \E r \in Runs : Validate(r)
    \/ \E r \in Runs : RepairCall(r)
    \/ \E r \in Runs : UpdateExtracted(r)

SpecRace == InitRace /\ [][NextRace]_vars

\* ==========================================================================
\* Properties
\* ==========================================================================
\* the run has returned to, or raised into, its caller
Finished(r) == run[r].pc \in {"done", "raised"}

\* the run was started for a deal that is in the store
OnExistingDeal(r) == run[r].pc # "idle" /\ run[r].deal_id \in DOMAIN deals

\* no store coroutine raised during the run
StoreHealthy(r) == run[r].n_store_err = 0

Valid(resp) == validate_and_parse(resp).ok

RECURSIVE StatusesOf(_)
StatusesOf(log) ==
    IF log = <<>> THEN <<>> ELSE <<Head(log).status>> \o StatusesOf(Tail(log))

ExtractedWrites(r) == {i \in 1..Len(run[r].writes) : run[r].writes[i].op = "extracted"}

StructuredColumns(row) ==
    <<row.company_name, row.founders, row.sector, row.geography, row.stage,
      row.round_size, row.metrics, row.investment_brief, row.tags>>

AllUnset(row) == \A i \in 1..9 : StructuredColumns(row)[i] = NULL
AllSet(row) == \A i \in 1..9 : StructuredColumns(row)[i] # NULL

\* the row holds the fields of ExtractedDeal e
Persisted(row, e) ==
    StructuredColumns(row) =
      <<Some(e.company_name), Some(json_dumps(e.founders)), Some(e.sector),
        Some(e.geography), Some(e.stage), Some(e.round_size),
        Some(json_dumps(e.metrics)), Some(json_dumps(e.investment_brief)),
        Some(json_dumps(e.tags))>>

Rank(status) ==
    CASE status = PENDING -> 0
      [] status = EXTRACTING -> 1
      [] status = VALIDATING -> 2
      [] status \in {COMPLETED, FAILED} -> 3

Terminal(status) == status \in {COMPLETED, FAILED}

\* C1: a run with a broadcaster on an existing pending deal, with a healthy
\* store, whose first LLM response has passed validation, writes the statuses
\* extracting, validating, completed and no other, publishes exactly the
\* events extracting, validating, completed, makes no repair call, and
\* leaves the fields of the validated ExtractedDeal in the row.
C1_FirstAttemptValid ==
    \A r \in Runs :
       ( /\ Finished(r) /\ OnExistingDeal(r) /\ StoreHealthy(r)
         /\ run[r].ws_manager
         /\ run[r].responses # <<>>
         /\ Valid(run[r].responses[1])
         /\ run[r].n_validate = 1 )
       => /\ StatusesOf(run[r].writes) = <<EXTRACTING, VALIDATING, COMPLETED>>
          /\ run[r].events = <<[status |-> EXTRACTING, error |-> NULL],
                               [status |-> VALIDATING, error |-> NULL],
                               [status |-> COMPLETED, error |-> NULL]>>
          /\ run[r].n_repair = 0
          /\ deals[run[r].deal_id].status = COMPLETED
          /\ Persisted(deals[run[r].deal_id], ExtractedDeal(run[r].responses[1]))

\* C2: a run on an existing deal, with a healthy store, whose first response
\* fails validation and whose repaired response passes it, ends with status
\* completed, calls update_deal_extracted exactly once and repair_json
\* exactly once, and validates at most MAX_RETRIES times.
C2_RepairedSecondAttempt ==
    \A r \in Runs :
       ( /\ Finished(r) /\ OnExistingDeal(r) /\ StoreHealthy(r)
         /\ Len(run[r].responses) = 2
         /\ ~Valid(run[r].responses[1])
         /\ Valid(run[r].responses[2]) )
       => /\ deals[run[r].deal_id].status = COMPLETED
          /\ Cardinality(ExtractedWrites(r)) = 1
          /\ run[r].n_repair = 1
          /\ run[r].n_validate <= MAX_RETRIES

\* C3: a run on an existing deal, with a healthy store, in which the first
\* response and the repaired response both fail validation: the last store
\* update sets failed with last_error the error string of the last
\* validation attempt, and update_deal_extracted is never called.
C3_AllAttemptsFail ==
    \A r \in Runs :
       ( /\ Finished(r) /\ OnExistingDeal(r) /\ StoreHealthy(r)
         /\ Len(run[r].responses) = 2
         /\ run[r].n_validate = 2
         /\ ~Valid(run[r].responses[1])
         /\ ~Valid(run[r].responses[2]) )
       => /\ run[r].writes # <<>>
          /\ LET last == run[r].writes[Len(run[r].writes)] IN
             /\ last.op = "status"
             /\ last.status = FAILED
             /\ last.last_error = Some(validate_and_parse(run[r].responses[2]).error)
          /\ ExtractedWrites(r) = {}

\* C4: process_deal_extraction never raises to its caller, whatever store
\* operation, LLM call or broadcast fails.
C4_NeverRaises == \A r \in Runs : run[r].pc # "raised"

\* C5: once the persisted status of a deal is completed or failed, no later
\* step of a run whose store is healthy changes it, also when observers
\* connect or disconnect during a fan-out.
C5_TerminalIsFinal ==
    [][\A d \in DOMAIN deals :
         (Terminal(deals[d].status) /\ faults' = 0)
         => deals'[d].status = deals[d].status]_vars

\* C6: in every state (store healthy) the structured columns of a row are
\* all NULL and its status is not completed, or they are all set and its
\* status is completed.
C6_AllOrNothing ==
    faults = 0 =>
      \A d \in DOMAIN deals :
         \/ AllUnset(deals[d]) /\ deals[d].status # COMPLETED
         \/ AllSet(deals[d]) /\ deals[d].status = COMPLETED

\* C7: with one run per deal id, no step moves the persisted status of a
\* deal to an earlier stage of pending < extracting < validating <
\* {completed, failed}, and the steps of the retry loop (a validation
\* attempt, a repair call) leave the table as it is.
C7_StatusMonotone ==
    [][/\ \A d \in DOMAIN deals :
            /\ d \in DOMAIN deals'
            /\ Rank(deals'[d].status) >= Rank(deals[d].status)
       /\ \A r \in Runs : run[r].pc \in {"L146", "L162"} => deals' = deals]_vars

\* C7 witness: a run has validated twice and its deal has reached a terminal
\* status.
C7_Witness ==
    \E r \in Runs :
       /\ OnExistingDeal(r) /\ Finished(r)
       /\ run[r].n_validate = 2
       /\ Terminal(deals[run[r].deal_id].status)

\* C8: no run on an existing deal ends with the persisted status still
\* pending, extracting or validating.
C8_EndsTerminal ==
    \A r \in Runs :
       (Finished(r) /\ OnExistingDeal(r)) => Terminal(deals[run[r].deal_id].status)

\* the error the handler of line 170 caught is the unknown id or an LLM call
LoadOrLLMFailure(r) == run[r].exc \in {Some(NotFoundStr), Some(LLMErrorStr)}

\* C9: in a run with a healthy store where the deal id is unknown at load
\* time or an LLM call raises: the last store update is update_deal_status
\* (failed, the message of that error) and the row, if there is one, shows
\* it; a run with a broadcaster publishes failed with that message last; no
\* structured field is written; no record appears for the unknown id; and
\* from the failure on the run makes no LLM call.
C9_State ==
    \A r \in Runs :
       (Finished(r) /\ StoreHealthy(r) /\ LoadOrLLMFailure(r))
       => /\ run[r].writes # <<>>
          /\ LET last == run[r].writes[Len(run[r].writes)] IN
             /\ last.op = "status" /\ last.committed
             /\ last.status = FAILED
             /\ last.last_error = run[r].exc
          /\ run[r].deal_id \in DOMAIN deals =>
               /\ deals[run[r].deal_id].status = FAILED
               /\ deals[run[r].deal_id].last_error = run[r].exc
               /\ AllUnset(deals[run[r].deal_id])
          /\ run[r].ws_manager =>
               /\ run[r].events # <<>>
               /\ run[r].events[Len(run[r].events)] =
                    [status |-> FAILED, error |-> run[r].exc]
          /\ ExtractedWrites(r) = {}
          /\ UnknownId \notin DOMAIN deals

C9_NoMoreCalls ==
    \A r \in Runs :
       LoadOrLLMFailure(r) =>
          /\ run'[r].n_extract = run[r].n_extract
          /\ run'[r].n_repair = run[r].n_repair

C9_LoadOrLLMFailure == []C9_State /\ [][C9_NoMoreCalls]_vars

\* C9 witness: the repair call raised, and the run has ended with the row
\* failed.
C9_Witness ==
    \E r \in Runs :
       /\ Finished(r) /\ StoreHealthy(r) /\ OnExistingDeal(r)
       /\ run[r].exc = Some(LLMErrorStr)
       /\ run[r].n_repair = 1
       /\ run[r].ws_manager
       /\ deals[run[r].deal_id].status = FAILED

\* C10: the table never holds two rows with the same content hash, and of
\* two requests with the same hash (store healthy) one gets 201 and the
\* other 409 with the id of the row of the first.
C10_NoDuplicateRows ==
    /\ \A d, e \in DOMAIN deals :
          deals[d].content_hash = deals[e].content_hash => d = e
    /\ faults = 0 =>
         \A p, q \in Reqs :
            ( /\ p # q
              /\ req[p].pc = "done" /\ req[q].pc = "done"
              /\ req[p].content_hash # NULL
              /\ req[p].content_hash = req[q].content_hash )
            => \/ /\ req[p].response = HTTP(201, req[p].deal_id)
                  /\ req[q].response = HTTP(409, req[p].deal_id)
               \/ /\ req[q].response = HTTP(201, req[q].deal_id)
                  /\ req[p].response = HTTP(409, req[q].deal_id)

\* C11: a submission is answered 413 exactly when its raw text is longer
\* than MAX_INPUT_SIZE bytes of UTF-8 (10,240 bytes pass, 10,241 bytes of
\* 10,240 characters do not); a request answered 413 has no hash and no deal
\* id and was never suspended in the lookup, no row holds an oversized text,
\* and the step that rejects a request leaves the table and the fault count
\* of the store as they are.
C11_State ==
    /\ \A q \in Reqs :
          req[q].pc # "idle" =>
            /\ (req[q].response = HTTP(413, NULL))
                  <=> (Utf8Len(req[q].raw_text) > MAX_INPUT_SIZE)
            /\ req[q].raw_text = TextMax => req[q].response # HTTP(413, NULL)
            /\ req[q].raw_text = TextOver => req[q].response = HTTP(413, NULL)
            /\ req[q].response = HTTP(413, NULL) =>
                  /\ req[q].pc = "done"
                  /\ req[q].content_hash = NULL
                  /\ req[q].deal_id = NULL
            /\ req[q].pc \in {"L71", "L80"} =>
                  Utf8Len(req[q].raw_text) <= MAX_INPUT_SIZE
    /\ \A d \in DOMAIN deals : Utf8Len(deals[d].raw_text) <= MAX_INPUT_SIZE

C11_Step ==
    \A q \in Reqs :
       (req[q].pc = "idle" /\ req'[q].response = HTTP(413, NULL))
       => /\ deals' = deals
          /\ faults' = faults
          /\ req'[q].pc = "done"

C11_SizeLimit == []C11_State /\ [][C11_Step]_vars

\* C11 witness: a text of 10,241 bytes was rejected, one of 10,240 bytes was
\* accepted and is the only row.
C11_Witness ==
    \E p, q \in Reqs :
       /\ req[p].raw_text = TextOver /\ req[p].response = HTTP(413, NULL)
       /\ req[q].raw_text = TextMax /\ req[q].response = HTTP(201, req[q].deal_id)
       /\ Cardinality(DOMAIN deals) = 1

\* C12: a request answered 201 has its row in the table and a run of
\* process_deal_extraction for its deal id registered (add_task is called
\* before the endpoint returns) or already running.
C12_AcceptedIsProcessed ==
    \A q \in Reqs :
       (req[q].pc = "done" /\ req[q].response = HTTP(201, req[q].deal_id))
       => /\ req[q].deal_id[1] \in DOMAIN deals
          /\ \E r \in Runs : run[r].pc # "idle" /\ run[r].deal_id = req[q].deal_id[1]

\* C13: a broadcast_status call during which no connect or disconnect
\* changed the set of its deal returns without raising, has attempted a send
\* to each socket that was in the set when it began once and to no other,
\* and leaves the set of the deal as that set minus the sockets whose send
\* failed (the sockets whose send succeeded stay); the sets of the other
\* deal ids, and the ids that have an entry, are as before the pruning.
C13_FanOut ==
    [][\A r \in Runs :
         (run[r].pc = "send" /\ run'[r].pc # "send" /\ ~run'[r].bc.changed)
         => LET b == run'[r].bc
                d == run[r].deal_id
            IN /\ run'[r].pc = run[r].bc.ret
               /\ b.tried = b.start
               /\ b.again = {}
               /\ b.dead \subseteq b.start
               /\ DOMAIN connections' = DOMAIN connections
               /\ connections'[d] = b.start \ b.dead
               /\ \A x \in DOMAIN connections \ {d} :
                     connections'[x] = connections[x]]_vars

\* C13 witness: a fan-out to two subscribers has ended, one send failed and
\* that socket alone was pruned, while another deal id has a subscriber.
C13_Witness ==
    \E r \in Runs :
       LET b == run[r].bc
           d == run[r].deal_id
       IN /\ run[r].pc \notin {"idle", "send"}
          /\ Cardinality(b.start) >= 2
          /\ Cardinality(b.dead) = 1
          /\ ~b.changed
          /\ d \in DOMAIN connections
          /\ connections[d] = b.start \ b.dead
          /\ \E x \in DOMAIN connections \ {d} : connections[x] # {}

\* C14: whatever connect and disconnect calls for the deal id happen while
\* a broadcast_status call is in progress, the call returns without raising,
\* has attempted a send to exactly the sockets that were subscribed when it
\* began, and removes from the set only the sockets whose send failed.
C14_SnapshotFanOut ==
    [][\A r \in Runs :
         (run[r].pc = "send" /\ run'[r].pc # "send")
         => LET b == run'[r].bc
                d == run[r].deal_id
            IN /\ run'[r].pc = run[r].bc.ret
               /\ b.tried = b.start
               /\ b.again = {}
               /\ d \in DOMAIN connections =>
                     /\ d \in DOMAIN connections'
                     /\ connections'[d] = connections[d] \ b.dead]_vars

\* C15: disconnect(d, w) of a subscribed socket removes w from the set of d,
\* removes the entry of d when the set becomes empty, and leaves the other
\* sockets of d and the entries of the other deal ids as they are;
\* disconnect of a socket that is not in the set of d, or of a deal id with
\* no entry, leaves the mapping as it is.  No disconnect makes a run raise.
C15_DisconnectFrame ==
    [][\A d \in AllIds, w \in WebSockets \cup {Bystander} :
         disconnect(d, w)
         => /\ IF d \in DOMAIN connections /\ w \in connections[d]
               THEN /\ \A x \in DOMAIN connections \ {d} :
                         /\ x \in DOMAIN connections'
                         /\ connections'[x] = connections[x]
                    /\ DOMAIN connections' \subseteq DOMAIN connections
                    /\ IF connections[d] = {w}
                       THEN d \notin DOMAIN connections'
                       ELSE /\ d \in DOMAIN connections'
                            /\ connections'[d] = connections[d] \ {w}
               ELSE connections' = connections
            /\ \A r \in Runs : run'[r].pc = run[r].pc]_vars

\* C16: no broadcast_status call attempts a send of its event to a socket
\* more than once; a send is attempted only to a socket that is subscribed
\* at that moment; and once the call has ended, the set of sockets its event
\* was sent to does not grow (a socket that subscribes later never gets it).
C16_Once == \A r \in Runs : run[r].bc.again = {}

C16_NoReplay ==
    \A r \in Runs :
       /\ run[r].deal_id \in DOMAIN connections =>
            (run'[r].bc.tried \ run[r].bc.tried) \subseteq connections[run[r].deal_id]
       /\ (run[r].pc # "send" /\ run'[r].pc # "send"
             /\ run'[r].events = run[r].events)
            => run'[r].bc.tried = run[r].bc.tried

C16_AtMostOnce == []C16_Once /\ [][C16_NoReplay]_vars

\* a text in the form the claim describes: lower case, no whitespace but
\* single spaces, and none of those at either end
IsNormalForm(t) ==
    /\ \A i \in 1..Len(t) :
          /\ t[i][1] \notin {"A", "B", "TAB", "NL"}
          /\ t[i][1] = " " => (t[i][2] = 1 /\ 1 < i /\ i < Len(t))
    /\ \A i \in 1..(Len(t) - 1) : t[i][1] # t[i + 1][1]

\* C17: the text that is hashed is in normal form, normalizing it again
\* gives the same text, and two submitted texts with the same normalized
\* form have the same content hash; a lookup made while the table holds a
\* row whose text has the normalized form of the submitted one answers 409
\* with the id of such a row.
C17_State ==
    \A p, q \in Reqs :
       (req[p].content_hash # NULL /\ req[q].content_hash # NULL)
       => /\ IsNormalForm(normalized(req[p].raw_text))
          /\ normalized(normalized(req[p].raw_text)) = normalized(req[p].raw_text)
          /\ req[p].content_hash = Some(sha256(normalized(req[p].raw_text)))
          /\ normalized(req[p].raw_text) = normalized(req[q].raw_text)
               => req[p].content_hash = req[q].content_hash

C17_Gate ==
    \A q \in Reqs :
       LET same == {d \in DOMAIN deals :
                      normalized(deals[d].raw_text) = normalized(req[q].raw_text)}
       IN (req[q].pc = "L71" /\ req'[q].pc # "L71" /\ faults' = faults
             /\ same # {})
          => \E d \in same : req'[q].response = HTTP(409, Some(d))

C17_HashOfNormalized == []C17_State /\ [][C17_Gate]_vars

\* C17 witness: two texts that differ in case and whitespace were submitted,
\* the first was stored and the second was answered 409 with its id.
C17_Witness ==
    \E p, q \in Reqs :
       /\ req[p].raw_text = <<<<"A", 1>>, <<" ", 1>>, <<"a", 1>>>>
       /\ req[q].raw_text = <<<<"a", 1>>, <<"TAB", 1>>, <<"A", 1>>>>
       /\ req[p].response = HTTP(201, req[p].deal_id)
       /\ req[q].response = HTTP(409, req[p].deal_id)

\* what the claim says is accepted: a JSON object with a non-empty
\* company_name and an investment_brief of 1 to 15 items
Accepts(x) ==
    /\ x.kind = "object"
    /\ "company_name" \in x.has /\ x.company_name # ""
    /\ "investment_brief" \in x.has
    /\ Len(x.investment_brief) \in 1..15

\* C18: a validation attempt succeeds exactly when the response is a JSON
\* object with a non-empty company_name and an investment_brief of 1 to 15
\* items (so not for malformed JSON, a missing or empty company_name, a
\* missing or empty brief, a brief of 16 items); the ExtractedDeal it
\* returns has the company_name and brief of the response, and its optional
\* fields are those of the response, empty where the response has none.
C18_Step ==
    \A r \in Runs :
       (run[r].pc = "L146" /\ run'[r].pc # "L146")
       => LET x == run[r].json_response[1] IN
          /\ (run'[r].pc = "L150") <=> Accepts(x)
          /\ validate_and_parse(x).ok <=> Accepts(x)
          /\ run'[r].pc = "L150" =>
                /\ run'[r].extracted # NULL
                /\ LET e == run'[r].extracted[1] IN
                   /\ e.company_name = x.company_name
                   /\ e.investment_brief = x.investment_brief
                   /\ e.founders = IF "founders" \in x.has THEN x.founders ELSE <<>>
                   /\ e.sector = IF "sector" \in x.has THEN x.sector ELSE ""
                   /\ e.geography = "" /\ e.stage = "" /\ e.round_size = ""
                   /\ e.metrics = <<>> /\ e.tags = <<>>
          /\ run'[r].pc # "L150" => run'[r].extracted = run[r].extracted

C19_ErrorOnlyWhenFailed ==
    \A d \in DOMAIN deals :
       deals[d].last_error # NULL => deals[d].status = FAILED

\* C19 witness: a run has ended and left its deal failed with a last_error.
C19_Witness ==
    \E r \in Runs :
       /\ Finished(r) /\ OnExistingDeal(r)
       /\ deals[run[r].deal_id].status = FAILED
       /\ deals[run[r].deal_id].last_error # NULL
       /\ run[r].n_validate = MAX_RETRIES

\* C20: process_deal_extraction does not look at the persisted status: the
\* status a run writes at lines 120 and 137 is the status of the row
\* afterwards, whatever another run has written; and the persisted status
\* moves to an earlier stage only in a step taken while two runs have been
\* started for the deal (the witness is such a backward move).
C20_Step ==
    /\ \A r \in Runs :
          (run[r].pc \in {"L120", "L137"}
             /\ run'[r].pc = StatusArg(run[r]).next
             /\ run[r].deal_id \in DOMAIN deals)
          => deals'[run[r].deal_id].status = StatusArg(run[r]).status
    /\ \A d \in DOMAIN deals :
          Rank(deals'[d].status) < Rank(deals[d].status)
          => \E r1, r2 \in Runs :
                /\ r1 # r2
                /\ run[r1].pc # "idle" /\ run[r1].deal_id = d
                /\ run[r2].pc # "idle" /\ run[r2].deal_id = d

C20_RaceOnStatus == [][C20_Step]_vars

\* C20 witness: one run has ended after writing completed, and the row of
\* its deal now says extracting or validating, written by the other run.
C20_Witness ==
    \E r \in Runs :
       /\ run[r].pc = "done"
       /\ run[r].writes[Len(run[r].writes)].status = COMPLETED
       /\ deals[run[r].deal_id].status \in {EXTRACTING, VALIDATING}

\* C21: a validation attempt that fails while an attempt remains is followed
\* by the repair call, made with the response that failed and the error of
\* that attempt, for every response that does not validate; and the
\* repaired response is what the next attempt validates.
C21_Step ==
    \A r \in Runs :
       /\ ( /\ run[r].pc = "L146" /\ run'[r].pc # "L146"
            /\ ~Valid(run[r].json_response[1])
            /\ run[r].attempt < MAX_RETRIES - 1 )
          => /\ run'[r].pc = "L162"
             /\ run'[r].json_response = run[r].json_response
             /\ run'[r].last_error =
                  Some(validate_and_parse(run[r].json_response[1]).error)
       /\ (run[r].pc = "L162" /\ run'[r].pc = "L146")
          => /\ run'[r].n_repair = run[r].n_repair + 1
             /\ run'[r].json_response # NULL
             /\ run'[r].responses = Append(run[r].responses, run'[r].json_response[1])

C21_RepairAfterFailure == [][C21_Step]_vars

\* C22: in every run the extraction call is made at most once, validation
\* is attempted at most MAX_RETRIES times and the repair call is made at most
\* MAX_RETRIES - 1 times; a repair call is made only right after a failed
\* validation attempt that was not the last one, never after a successful
\* attempt, and the extraction call only by a run that has made none.
C22_State ==
    \A r \in Runs :
       /\ run[r].n_extract <= 1
       /\ run[r].n_validate <= MAX_RETRIES
       /\ run[r].n_repair <= MAX_RETRIES - 1

C22_Step ==
    \A r \in Runs :
       /\ (run[r].pc # "idle" /\ run'[r].n_repair # run[r].n_repair)
          => /\ run'[r].n_repair = run[r].n_repair + 1
             /\ run[r].n_validate >= 1
             /\ run[r].n_validate < MAX_RETRIES
             /\ ~Valid(run[r].json_response[1])
             /\ run[r].extracted = NULL
       /\ (run[r].pc # "idle" /\ run'[r].n_extract # run[r].n_extract)
          => /\ run[r].n_extract = 0
             /\ run[r].n_validate = 0

C22_CallBudget == []C22_State /\ [][C22_Step]_vars

\* C22 witness: a run has ended after one extraction call, two validation
\* attempts and one repair call.
C22_Witness ==
    \E r \in Runs :
       /\ Finished(r)
       /\ run[r].n_extract = 1
       /\ run[r].n_validate = MAX_RETRIES
       /\ run[r].n_repair = MAX_RETRIES - 1

\* the statuses of the store updates of a log that were committed
RECURSIVE CommittedStatuses(_)
CommittedStatuses(log) ==
    IF log = <<>> THEN <<>>
    ELSE (IF Head(log).committed THEN <<Head(log).status>> ELSE <<>>)
         \o CommittedStatuses(Tail(log))

\* C23: a run publishes a status only right after its own store update has
\* committed that status (and, for a deal in the store, while the row holds
\* it); for a run with a broadcaster and a healthy store the published
\* statuses are the committed ones in the same order, at most the newest
\* still unpublished, and equal when the run has ended; they are extracting,
\* validating, then one terminal status (completed or failed) as the last
\* event; and validating is written only after the extraction call returned.
C23_Publish ==
    \A r \in Runs :
       (run[r].pc # "idle" /\ run'[r].events # run[r].events)
       => /\ run[r].writes # <<>>
          /\ LET last == run[r].writes[Len(run[r].writes)] IN
             /\ last.committed
             /\ run'[r].events = Append(run[r].events,
                    [status |-> last.status, error |-> last.last_error])
             /\ run[r].deal_id \in DOMAIN deals
                => deals[run[r].deal_id].status = last.status

C23_Sequence ==
    \A r \in Runs :
       (run[r].pc # "idle" /\ run[r].ws_manager /\ StoreHealthy(r))
       => LET pub == StatusesOf(run[r].events)
              per == CommittedStatuses(run[r].writes) IN
          /\ Len(pub) <= Len(per) /\ Len(per) <= Len(pub) + 1
          /\ pub = SubSeq(per, 1, Len(pub))
          /\ Finished(r) => pub = per
          /\ \A i \in 1..Len(pub) :
                /\ pub[i] = EXTRACTING => i = 1
                /\ pub[i] = VALIDATING => i = 2 /\ pub[1] = EXTRACTING

C23_OneTerminal ==
    \A r \in Runs :
       (run[r].pc # "idle" /\ run[r].ws_manager /\ StoreHealthy(r))
       => \A i \in 1..Len(run[r].events) :
             Terminal(run[r].events[i].status) => i = Len(run[r].events)

C23_AfterExtraction ==
    \A r \in Runs : \A i \in 1..Len(run[r].writes) :
       run[r].writes[i].status = VALIDATING
       => /\ run[r].n_extract = 1
          /\ run[r].responses # <<>>

C23_PersistThenPublish ==
    /\ [](C23_Sequence /\ C23_OneTerminal /\ C23_AfterExtraction)
    /\ [][C23_Publish]_vars

\* C24: in every state the connections mapping has no deal id with an empty
\* set of subscribers, also after broadcast_status has discarded the last
\* live connection of a deal; and a broadcast_status call for a deal id with
\* no entry sends to no socket, returns at once and leaves the mapping as
\* it is.
C24_State == \A d \in DOMAIN connections : connections[d] # {}

C24_Step ==
    \A r \in Runs :
       ( /\ run[r].pc \in {"L122", "L139", "L152", "L168", "L175"}
         /\ run[r].ws_manager
         /\ run[r].deal_id \notin DOMAIN connections
         /\ run'[r].pc # run[r].pc )
       => /\ connections' = connections
          /\ run'[r].pc = BroadcastArg(run[r]).ret
          /\ run'[r].bc.tried = {}

C24_NoEmptyTopics == []C24_State /\ [][C24_Step]_vars

TypeOK ==
    /\ \A d \in DOMAIN deals : deals[d].status \in DealStatus
    /\ \A r \in Runs : run[r].attempt \in 0..MAX_RETRIES
    /\ faults \in 0..MaxFaults
    /\ DOMAIN slots = DOMAIN connections
    /\ \A d \in DOMAIN connections :
          /\ connections[d] \subseteq accepted
          /\ slots[d].fill >= Cardinality(connections[d])
====
